---- MODULE Spec2Model ----
(***************************************************************************)
(* A model of the read-only git access library: the object resolution      *)
(* layer (repo_object.go), the reference resolution layer, the commit      *)
(* cache and the commit graph traversals (repo_commit.go).                 *)
(***************************************************************************)
EXTENDS Integers, Sequences, FiniteSets, TLC

(***************************************************************************)
(* Bounds of the model.                                                    *)
(***************************************************************************)
\* pack index files a repository holds at most
MaxIndexFiles == 2
\* lines of a packed-refs file looked up on its own
MaxPackedLines == 3
\* lines of the packed-refs file behind getCommitIdOfRef
MaxRefPackedLines == 1
\* commits of a repository whose cache or whose full ancestry is looked at
NumCommits == 3
\* parents a commit has at most
MaxParents == 2
\* committer timestamps run from 1 to MaxTime
MaxTime == 3
\* commits of a repository CommitsBetween walks
NumChain == 5
\* a parent of commit k there is one of the MaxSpan commits before k
MaxSpan == 2
\* getCommit and CommitsBetween calls in one run
MaxCalls == 3
NumCallers == 2

(***************************************************************************)
(* Program constants.                                                      *)
(***************************************************************************)
ObjectCommit == 16
ObjectTree == 32
ObjectBlob == 48
ObjectTag == 64
\* the length of an identifier in hex
HashLen == 40

VARIABLES
    \* ---- object store (the repository on disk + repo.indexfiles) ----
    looseFiles,     \* identifiers that have a loose object file
    indexfiles,     \* repo.indexfiles: sequence of [packpath, offsetValues]
    \* ---- the last getRawObject call ----
    objCall,        \* its arguments, the collaborators' outcomes and its result
    \* ---- references on disk ----
    looseRefs,      \* ref path -> content of its loose ref file, where there is one
    packedRefs,     \* the packed-refs file: [exists, lines]
    \* ---- one getCommitIdOfRef call, an iteration of its loop at a time ----
    refPc,          \* "idle", "start" (at the label start:) or "done"
    refArg,         \* the refpath the call was made with
    refpath,        \* the local variable refpath
    refRead,        \* what the last iteration read
    refRes,         \* the call's result (id, err) once refPc = "done"
    \* ---- the last getCommitIdOfPackedRef call made on its own ----
    packedCall,
    \* ---- commits ----
    graph,          \* identifier -> [parents, when]: the commit stored under it
    unparsable,     \* identifiers whose object parseCommitData rejects
    commitCache,    \* repo.commitCache
    commitCall,     \* the last getCommit call and its result
    firstGot,       \* identifier -> the commit its first successful getCommit returned
    betweenCall,    \* the last CommitsBetween call and its result
    beforeCall,     \* the last CommitsBefore call and its result
    prevBeforeCall, \* the CommitsBefore call before the last one
    calls,          \* calls made so far, where a specification bounds them
    \* ---- goroutines sharing one repository handle ----
    callers,        \* goroutine -> its position in getCommit and its local variables
    heap,           \* the *Commit records allocated so far; a pointer is an index
    lists           \* the lists made by list.New(); a *list.List is an index

objVars == <<looseFiles, indexfiles, objCall>>
refStore == <<looseRefs, packedRefs>>
refVars == <<looseRefs, packedRefs, refPc, refArg, refpath, refRead, refRes, packedCall>>
commitVars == <<graph, unparsable, commitCache, commitCall, firstGot,
                betweenCall, beforeCall, prevBeforeCall, calls,
          callers, heap, lists>>
concVars == <<callers, heap, lists>>
vars == <<looseFiles, indexfiles, objCall,
          looseRefs, packedRefs, refPc, refArg, refpath, refRead, refRes, packedCall,
          graph, unparsable, commitCache, commitCall, firstGot,
          betweenCall, beforeCall, prevBeforeCall, calls>>

(***************************************************************************)
(* Errors and objects.  Every error is a record [kind, arg] so that any    *)
(* two results can be compared.                                            *)
(***************************************************************************)
NoErr == [kind |-> "nil", arg |-> 0]
ErrNotExist == [kind |-> "NotExist", arg |-> 0]
LooseIOError == [kind |-> "LooseIOError", arg |-> 0]
PackIOError == [kind |-> "PackIOError", arg |-> 0]
ObjectNotFound(id) == [kind |-> "ObjectNotFound", arg |-> id]

NoStream == [from |-> "none", path |-> <<"none", 0>>, off |-> 0]
NilObject == [Type |-> 0, Size |-> 0, Data |-> NoStream]
Object(ot, length, data) == [Type |-> ot, Size |-> length, Data |-> data]

ObjIds == {1, 2}
Offsets == {12, 40}

\* filepathFromSHA1(repo.Path, id.String()): one path per identifier
filepathFromSHA1(id) == <<"objects", id>>
\* the archive path of the k-th pack index discovered
PackPath(k) == <<"pack", k>>

(***************************************************************************)
(* The external decoders.  What is stored is a fixture that gives every    *)
(* loose file and every (archive, offset) pair its own type and size, so   *)
(* that a result names the place it was decoded from.                      *)
(***************************************************************************)
LooseContents(id) == [ot |-> ObjectCommit, length |-> 100 + id]
PackContents(packpath, offset) ==
    [ot |-> IF offset = 12 THEN ObjectBlob ELSE ObjectTree,
     length |-> 1000 * packpath[2] + offset]

\* readObjectFile(path, metaOnly): (type, size, stream) | NotExist | IOError
readObjectFile(id, metaOnly, ioFail) ==
    IF ioFail THEN [ot |-> 0, length |-> 0, data |-> NoStream, err |-> LooseIOError]
    ELSE IF id \notin looseFiles
    THEN [ot |-> 0, length |-> 0, data |-> NoStream, err |-> ErrNotExist]
    ELSE [ot |-> LooseContents(id).ot, length |-> LooseContents(id).length,
          data |-> IF metaOnly THEN NoStream
                   ELSE [from |-> "loose", path |-> filepathFromSHA1(id), off |-> 0],
          err |-> NoErr]

\* readObjectBytes(packpath, &indexfiles, offset, metaOnly)
readObjectBytes(packpath, offset, metaOnly, ioFail) ==
    IF ioFail THEN [ot |-> 0, length |-> 0, data |-> NoStream, err |-> PackIOError]
    ELSE [ot |-> PackContents(packpath, offset).ot,
          length |-> PackContents(packpath, offset).length,
          data |-> IF metaOnly THEN NoStream
                   ELSE [from |-> "pack", path |-> packpath, off |-> offset],
          err |-> NoErr]

(***************************************************************************)
(* findObjectPack: the first index file, in the order of repo.indexfiles,  *)
(* whose offsetValues holds id, with that index file's offset.             *)
(***************************************************************************)
NilPack == [found |-> FALSE, packpath |-> <<"none", 0>>, offset |-> 0]

RECURSIVE findObjectPackFrom(_, _, _)
findObjectPackFrom(files, i, id) ==
    IF i > Len(files) THEN NilPack
    ELSE IF id \in DOMAIN files[i].offsetValues
    THEN [found |-> TRUE, packpath |-> files[i].packpath,
          offset |-> files[i].offsetValues[id]]
    ELSE findObjectPackFrom(files, i + 1, id)

\* a bug: the scan keeps going and the last match wins
RECURSIVE findObjectPackLastFrom(_, _, _)
findObjectPackLastFrom(files, i, id) ==
    IF i < 1 THEN NilPack
    ELSE IF id \in DOMAIN files[i].offsetValues
    THEN [found |-> TRUE, packpath |-> files[i].packpath,
          offset |-> files[i].offsetValues[id]]
    ELSE findObjectPackLastFrom(files, i - 1, id)

findObjectPackLast(files, id) == findObjectPackLastFrom(files, Len(files), id)

findObjectPack(files, id) == findObjectPackFrom(files, 1, id)

(***************************************************************************)
(* getRawObject.  The result also records what the call did: whether the   *)
(* pack index set was probed and which decoder calls were made.            *)
(***************************************************************************)
RawResult(obj, err, probed, decodes) ==
    [obj |-> obj, err |-> err, probed |-> probed, decodes |-> decodes]

LooseDecode(id) == [decoder |-> "loose", path |-> filepathFromSHA1(id), off |-> 0]
PackDecode(packpath, offset) == [decoder |-> "pack", path |-> packpath, off |-> offset]

\* a bug: any failure of the loose read is reported as ObjectNotFound
getRawObjectSwallow(id, metaOnly, looseFail, packFail) ==
    LET lr == readObjectFile(id, metaOnly, looseFail)
        pack == findObjectPack(indexfiles, id)
        pr == readObjectBytes(pack.packpath, pack.offset, metaOnly, packFail)
    IN  IF lr.err = NoErr
        THEN RawResult(Object(lr.ot, lr.length, lr.data), NoErr, FALSE, <<LooseDecode(id)>>)
        ELSE IF ~pack.found \/ lr.err # ErrNotExist
        THEN RawResult(NilObject, ObjectNotFound(id), TRUE, <<LooseDecode(id)>>)
        ELSE IF pr.err # NoErr
        THEN RawResult(NilObject, pr.err, TRUE,
                       <<LooseDecode(id), PackDecode(pack.packpath, pack.offset)>>)
        ELSE RawResult(Object(pr.ot, pr.length, pr.data), NoErr, TRUE,
                       <<LooseDecode(id), PackDecode(pack.packpath, pack.offset)>>)

\* a bug: after any failure of the loose read the archives are tried
getRawObjectFallThrough(id, metaOnly, looseFail, packFail) ==
    LET lr == readObjectFile(id, metaOnly, looseFail)
        pack == findObjectPack(indexfiles, id)
        pr == readObjectBytes(pack.packpath, pack.offset, metaOnly, packFail)
    IN  IF lr.err = NoErr
        THEN RawResult(Object(lr.ot, lr.length, lr.data), NoErr, FALSE, <<LooseDecode(id)>>)
        ELSE IF ~pack.found
        THEN RawResult(NilObject,
                       IF lr.err = ErrNotExist THEN ObjectNotFound(id) ELSE lr.err,
                       TRUE, <<LooseDecode(id)>>)
        ELSE IF pr.err # NoErr
        THEN RawResult(NilObject, pr.err, TRUE,
                       <<LooseDecode(id), PackDecode(pack.packpath, pack.offset)>>)
        ELSE RawResult(Object(pr.ot, pr.length, pr.data), NoErr, TRUE,
                       <<LooseDecode(id), PackDecode(pack.packpath, pack.offset)>>)

getRawObject(id, metaOnly, looseFail, packFail) ==
    LET lr == readObjectFile(id, metaOnly, looseFail)
        pack == findObjectPack(indexfiles, id)
        pr == readObjectBytes(pack.packpath, pack.offset, metaOnly, packFail)
    IN  IF lr.err = NoErr
        THEN RawResult(Object(lr.ot, lr.length, lr.data), NoErr, FALSE, <<LooseDecode(id)>>)
        ELSE IF lr.err # ErrNotExist
        THEN RawResult(NilObject, lr.err, FALSE, <<LooseDecode(id)>>)
        ELSE IF ~pack.found
        THEN RawResult(NilObject, ObjectNotFound(id), TRUE, <<LooseDecode(id)>>)
        ELSE IF pr.err # NoErr
        THEN RawResult(NilObject, pr.err, TRUE,
                       <<LooseDecode(id), PackDecode(pack.packpath, pack.offset)>>)
        ELSE RawResult(Object(pr.ot, pr.length, pr.data), NoErr, TRUE,
                       <<LooseDecode(id), PackDecode(pack.packpath, pack.offset)>>)

NoObjCall ==
    [called |-> FALSE, id |-> 0, metaOnly |-> FALSE, looseFail |-> FALSE,
     packFail |-> FALSE, res |-> RawResult(NilObject, NoErr, FALSE, <<>>)]

(***************************************************************************)
(* The reference resolution layer.  File contents, packed-refs lines and   *)
(* ref paths are sequences of characters.                                  *)
(***************************************************************************)
NL == "\n"
Rep(c, n) == [i \in 1..n |-> c]
RefPrefix == <<"r", "e", "f", ":", " ">>
WhiteSpace == {" ", "\t", "\r", NL}
HexChars == {"0", "1", "2", "3", "4", "5", "6", "7", "8", "9",
             "a", "b", "c", "d", "e", "f", "A", "B", "C", "D", "E", "F"}

RefNoErr == [kind |-> "nil", arg |-> <<>>]
RefNotFound(path) == [kind |-> "RefNotFound", arg |-> path]
ErrNoPackedRefs == [kind |-> "ErrNoPackedRefs", arg |-> <<>>]
RefNotExist == [kind |-> "NotExist", arg |-> <<>>]
RefIOError == [kind |-> "IOError", arg |-> <<>>]
ScanError == [kind |-> "ScanError", arg |-> <<>>]
ErrHashTooShort == [kind |-> "ObjectID hash too short", arg |-> <<>>]
ErrWrongObjectID(id) == [kind |-> "heads file wrong ObjectID string", arg |-> id]

\* IsObjectIDHex: 40 characters, all of them hex digits
IsObjectIDHex(s) == Len(s) = HashLen /\ \A i \in 1..Len(s) : s[i] \in HexChars

(***************************************************************************)
(* refRexp (ref: , any characters but a newline, a newline) is used        *)
(* unanchored by                                                           *)
(* FindAllStringSubmatch(f, 1): the match is the leftmost ref: that a      *)
(* newline follows, and the group runs to the first newline after it.      *)
(***************************************************************************)
refRexpStarts(f) ==
    {i \in 1..Len(f) :
        /\ i + 5 <= Len(f)
        /\ SubSeq(f, i, i + 4) = RefPrefix
        /\ \E j \in (i + 5)..Len(f) : f[j] = NL}

refRexpFind(f) ==
    LET starts == refRexpStarts(f)
    IN  IF starts = {} THEN [matched |-> FALSE, group |-> <<>>]
        ELSE LET i == CHOOSE k \in starts : \A m \in starts : k <= m
                 nl == CHOOSE j \in (i + 5)..Len(f) :
                           f[j] = NL /\ \A m \in (i + 5)..(j - 1) : f[m] # NL
             IN  [matched |-> TRUE, group |-> SubSeq(f, i + 5, nl - 1)]

(***************************************************************************)
(* strings.Fields and parseRefLine.                                        *)
(***************************************************************************)
\* strings.Fields(line): the maximal runs of characters that are not white
\* space, from left to right
Fields(line) ==
    LET n == Len(line)
        inField(i) == line[i] \notin WhiteSpace
        starts == {i \in 1..n : inField(i) /\ (i = 1 \/ ~inField(i - 1))}
        ends == {i \in 1..n : inField(i) /\ (i = n \/ ~inField(i + 1))}
        startOf(k) == CHOOSE b \in starts : Cardinality({c \in starts : c < b}) = k - 1
        endOf(b) == CHOOSE e \in ends : e >= b /\ \A d \in ends : d >= b => e <= d
    IN  [k \in 1..Cardinality(starts) |-> SubSeq(line, startOf(k), endOf(startOf(k)))]

HasPrefix(s, prefix) == Len(s) >= Len(prefix) /\ SubSeq(s, 1, Len(prefix)) = prefix

RefsSlash == <<"r", "e", "f", "s", "/">>

parseRefLine(line) ==
    LET fields == Fields(line)
        parseErr == [ok |-> FALSE, commit |-> <<>>, refpath |-> <<>>]
    IN  IF Len(fields) # 2 THEN parseErr
        ELSE IF Len(fields[1]) # HashLen THEN parseErr
        ELSE IF ~HasPrefix(fields[2], RefsSlash) THEN parseErr
        ELSE [ok |-> TRUE, commit |-> fields[1], refpath |-> fields[2]]

(***************************************************************************)
(* getCommitIdOfPackedRef.  scan is what the bufio.Scanner does on this    *)
(* call: it yields the first scan.yield lines and then either ends         *)
(* (scan.err = FALSE, all lines yielded) or stops with an error.           *)
(***************************************************************************)
ScanOutcomes(lines) ==
    {[yield |-> Len(lines), err |-> FALSE]}
        \cup {[yield |-> k, err |-> TRUE] : k \in 0..Len(lines)}

RECURSIVE scanPackedFrom(_, _, _, _)
scanPackedFrom(lines, i, yield, path) ==
    IF i > yield THEN [found |-> FALSE, commit |-> <<>>]
    ELSE LET refLine == parseRefLine(lines[i])
         IN  IF refLine.ok /\ refLine.refpath = path
             THEN [found |-> TRUE, commit |-> refLine.commit]
             ELSE scanPackedFrom(lines, i + 1, yield, path)

\* a bug: the scan does not stop at the first match, the last one wins
RECURSIVE scanPackedLastFrom(_, _, _, _)
scanPackedLastFrom(lines, i, yield, path) ==
    IF i < 1 THEN [found |-> FALSE, commit |-> <<>>]
    ELSE LET refLine == parseRefLine(lines[i])
         IN  IF i <= yield /\ refLine.ok /\ refLine.refpath = path
             THEN [found |-> TRUE, commit |-> refLine.commit]
             ELSE scanPackedLastFrom(lines, i - 1, yield, path)

getCommitIdOfPackedRefLast(path, scan) ==
    IF ~packedRefs.exists THEN [f |-> <<>>, err |-> ErrNoPackedRefs]
    ELSE LET hit == scanPackedLastFrom(packedRefs.lines, Len(packedRefs.lines),
                                       scan.yield, path)
         IN  IF hit.found THEN [f |-> hit.commit, err |-> RefNoErr]
             ELSE IF scan.err THEN [f |-> <<>>, err |-> ScanError]
             ELSE [f |-> <<>>, err |-> RefNotFound(path)]

getCommitIdOfPackedRef(path, scan) ==
    IF ~packedRefs.exists THEN [f |-> <<>>, err |-> ErrNoPackedRefs]
    ELSE LET hit == scanPackedFrom(packedRefs.lines, 1, scan.yield, path)
         IN  IF hit.found THEN [f |-> hit.commit, err |-> RefNoErr]
             ELSE IF scan.err THEN [f |-> <<>>, err |-> ScanError]
             ELSE [f |-> <<>>, err |-> RefNotFound(path)]

(***************************************************************************)
(* One iteration of getCommitIdOfRef, from the label start: to a return or *)
(* to the goto.                                                            *)
(***************************************************************************)
\* ioutil.ReadFile(filepath.Join(repo.Path, refpath))
ReadFile(path, ioFail) ==
    IF ioFail THEN [f |-> <<>>, err |-> RefIOError]
    ELSE IF path \notin DOMAIN looseRefs
    THEN [f |-> <<>>, err |-> RefNotExist]
    ELSE [f |-> looseRefs[path], err |-> RefNoErr]

\* the outcome of an iteration: done with (id, err), or again with a new refpath
Iteration(done, id, err, next, read) ==
    [done |-> done, id |-> id, err |-> err, next |-> next, read |-> read]

\* a bug: the identifier is taken without the hex check
parseRefContentUnchecked(f, read) ==
    LET m == refRexpFind(f)
    IN  IF ~m.matched
        THEN IF Len(f) < HashLen
             THEN Iteration(TRUE, <<>>, ErrHashTooShort, <<>>, read)
             ELSE Iteration(TRUE, SubSeq(f, 1, HashLen), RefNoErr, <<>>, read)
        ELSE Iteration(FALSE, <<>>, RefNoErr, m.group, read)

\* the content f is a symbolic ref or an identifier
parseRefContent(f, read) ==
    LET m == refRexpFind(f)
    IN  IF ~m.matched
        THEN IF Len(f) < HashLen
             THEN Iteration(TRUE, <<>>, ErrHashTooShort, <<>>, read)
             ELSE LET id == SubSeq(f, 1, HashLen)
                  IN  IF ~IsObjectIDHex(id)
                      THEN Iteration(TRUE, <<>>, ErrWrongObjectID(id), <<>>, read)
                      ELSE Iteration(TRUE, id, RefNoErr, <<>>, read)
        ELSE Iteration(FALSE, <<>>, RefNoErr, m.group, read)

ReadOf(path, looseErr, packed, packedErr, f) ==
    [path |-> path, looseErr |-> looseErr, packed |-> packed,
     packedErr |-> packedErr, f |-> f]

NoRead == ReadOf(<<>>, RefNoErr, FALSE, RefNoErr, <<>>)

\* a bug: a missing packed-refs file is reported as it is
refIterationLeak(path, ioFail, scan) ==
    LET lr == ReadFile(path, ioFail)
        pk == getCommitIdOfPackedRef(path, scan)
    IN  IF lr.err = RefNotExist
        THEN IF pk.err # RefNoErr
             THEN Iteration(TRUE, <<>>, pk.err, <<>>,
                            ReadOf(path, lr.err, TRUE, pk.err, <<>>))
             ELSE parseRefContent(pk.f, ReadOf(path, lr.err, TRUE, pk.err, pk.f))
        ELSE IF lr.err # RefNoErr
        THEN Iteration(TRUE, <<>>, lr.err, <<>>,
                       ReadOf(path, lr.err, FALSE, RefNoErr, <<>>))
        ELSE parseRefContent(lr.f, ReadOf(path, lr.err, FALSE, RefNoErr, lr.f))

\* a bug: an entry of packed-refs is taken before the loose file is read
refIterationPackedFirst(path, ioFail, scan) ==
    LET lr == ReadFile(path, ioFail)
        pk == getCommitIdOfPackedRef(path, scan)
    IN  IF pk.err = RefNoErr
        THEN parseRefContent(pk.f, ReadOf(path, lr.err, TRUE, pk.err, pk.f))
        ELSE IF lr.err = RefNotExist
        THEN IF pk.err = ErrNoPackedRefs
             THEN Iteration(TRUE, <<>>, RefNotFound(path), <<>>,
                            ReadOf(path, lr.err, TRUE, pk.err, <<>>))
             ELSE Iteration(TRUE, <<>>, pk.err, <<>>,
                            ReadOf(path, lr.err, TRUE, pk.err, <<>>))
        ELSE IF lr.err # RefNoErr
        THEN Iteration(TRUE, <<>>, lr.err, <<>>,
                       ReadOf(path, lr.err, FALSE, RefNoErr, <<>>))
        ELSE parseRefContent(lr.f, ReadOf(path, lr.err, FALSE, RefNoErr, lr.f))

refIteration(path, ioFail, scan) ==
    LET lr == ReadFile(path, ioFail)
        pk == getCommitIdOfPackedRef(path, scan)
    IN  IF lr.err = RefNotExist
        THEN IF pk.err = ErrNoPackedRefs
             THEN Iteration(TRUE, <<>>, RefNotFound(path), <<>>,
                            ReadOf(path, lr.err, TRUE, pk.err, <<>>))
             ELSE IF pk.err # RefNoErr
             THEN Iteration(TRUE, <<>>, pk.err, <<>>,
                            ReadOf(path, lr.err, TRUE, pk.err, <<>>))
             ELSE parseRefContent(pk.f, ReadOf(path, lr.err, TRUE, pk.err, pk.f))
        ELSE IF lr.err # RefNoErr
        THEN Iteration(TRUE, <<>>, lr.err, <<>>,
                       ReadOf(path, lr.err, FALSE, RefNoErr, <<>>))
        ELSE parseRefContent(lr.f, ReadOf(path, lr.err, FALSE, RefNoErr, lr.f))

NoRefRes == [id |-> <<>>, err |-> RefNoErr]
NoPackedCall == [called |-> FALSE, path |-> <<>>, scan |-> [yield |-> 0, err |-> FALSE],
                 res |-> [f |-> <<>>, err |-> RefNoErr]]

IdleRef ==
    /\ looseRefs = <<>>
    /\ packedRefs = [exists |-> FALSE, lines |-> <<>>]
    /\ refPc = "idle"
    /\ refArg = <<>>
    /\ refpath = <<>>
    /\ refRead = NoRead
    /\ refRes = NoRefRes
    /\ packedCall = NoPackedCall

(***************************************************************************)
(* Commits and the commit cache.  graph gives, for every identifier, what  *)
(* parseCommitData reads from the object stored under it.                  *)
(***************************************************************************)
ParseError == [kind |-> "ParseError", arg |-> 0]
Panic == [kind |-> "panic: nil pointer dereference", arg |-> 0]

\* a nil *Commit
NilCommit == [Id |-> 0, parents |-> <<>>, when |-> 0]
ParentCount(commit) == Len(commit.parents)

\* repo.commitCache: nil, or a map from identifiers to commits
NilCache == [isNil |-> TRUE, m |-> <<>>]
\* the entries of a cache, nil or not
Entries(cache) == cache.m

\* the offset of a packed commit in the one archive of the commit fixtures
PackedAt(id) == 100 + id
\* the identifier of the object a stream reads
StreamId(data) == IF data.from = "loose" THEN data.path[2] ELSE data.off - 100

\* parseCommitData(o.Data): the commit fields, without Id
parseCommitData(data) ==
    IF data.from = "none" \/ StreamId(data) \in unparsable
    THEN [commit |-> NilCommit, err |-> ParseError]
    ELSE [commit |-> [Id |-> 0, parents |-> graph[StreamId(data)].parents,
                      when |-> graph[StreamId(data)].when],
          err |-> NoErr]

\* repo.object(id, metaOnly): the object resolution layer, without I/O errors
object(id, metaOnly) == getRawObject(id, metaOnly, FALSE, FALSE)

GotCommit(commit, err, cache, resolved, parsed) ==
    [commit |-> commit, err |-> err, cache |-> cache,
     resolved |-> resolved, parsed |-> parsed]

\* the cache once getCommit has passed its first lines: a nil map is made
MadeCache(cache) == IF cache.isNil THEN [isNil |-> FALSE, m |-> <<>>] ELSE cache

\* a bug: the cache is never consulted
getCommitNoLookup(cache, id) ==
    LET made == MadeCache(cache)
        o == object(id, FALSE)
        p == parseCommitData(o.obj.Data)
        commit == [p.commit EXCEPT !.Id = id]
    IN  IF o.err # NoErr THEN GotCommit(NilCommit, o.err, made, TRUE, FALSE)
        ELSE IF p.err # NoErr THEN GotCommit(NilCommit, p.err, made, TRUE, TRUE)
        ELSE GotCommit(commit, NoErr,
                       [made EXCEPT !.m = (id :> commit) @@ made.m], TRUE, TRUE)

\* a bug: the record is stored before the parse error is looked at
getCommitStoreEarly(cache, id) ==
    LET hit == ~cache.isNil /\ id \in DOMAIN cache.m
        made == MadeCache(cache)
        o == object(id, FALSE)
        p == parseCommitData(o.obj.Data)
        commit == [p.commit EXCEPT !.Id = id]
        stored == [made EXCEPT !.m = (id :> commit) @@ made.m]
    IN  IF hit THEN GotCommit(cache.m[id], NoErr, cache, FALSE, FALSE)
        ELSE IF o.err # NoErr THEN GotCommit(NilCommit, o.err, made, TRUE, FALSE)
        ELSE IF p.err # NoErr THEN GotCommit(NilCommit, p.err, stored, TRUE, TRUE)
        ELSE GotCommit(commit, NoErr, stored, TRUE, TRUE)

getCommit(cache, id) ==
    LET hit == ~cache.isNil /\ id \in DOMAIN cache.m
        made == MadeCache(cache)
        o == object(id, FALSE)
        p == parseCommitData(o.obj.Data)
        commit == [p.commit EXCEPT !.Id = id]
    IN  IF hit THEN GotCommit(cache.m[id], NoErr, cache, FALSE, FALSE)
        ELSE IF o.err # NoErr THEN GotCommit(NilCommit, o.err, made, TRUE, FALSE)
        ELSE IF p.err # NoErr THEN GotCommit(NilCommit, p.err, made, TRUE, TRUE)
        ELSE GotCommit(commit, NoErr,
                       [made EXCEPT !.m = (id :> commit) @@ made.m], TRUE, TRUE)

\* commit.Parent(n): the n-th parent (n counts from 0), through getCommit
Parent(cache, commit, n) == getCommit(cache, commit.parents[n + 1])

(***************************************************************************)
(* CommitsBetween.                                                         *)
(***************************************************************************)
Between(l, err, cache) == [l |-> l, err |-> err, cache |-> cache]

\* the for loop, entered with cur and the list l
RECURSIVE betweenLoop(_, _, _, _)
betweenLoop(cache, cur, before, l) ==
    IF before = NilCommit THEN Between(<<>>, Panic, cache)
    ELSE IF cur.Id = before.Id THEN Between(l, NoErr, cache)
    ELSE IF ParentCount(cur) = 0 THEN Between(Append(l, cur), NoErr, cache)
    ELSE LET p == Parent(cache, cur, 0)
         IN  IF p.err # NoErr THEN Between(<<>>, p.err, p.cache)
             ELSE betweenLoop(p.cache, p.commit, before, Append(l, cur))

\* a bug: before is pushed before the loop is left
RECURSIVE betweenLoopInclusive(_, _, _, _)
betweenLoopInclusive(cache, cur, before, l) ==
    IF before = NilCommit THEN Between(<<>>, Panic, cache)
    ELSE IF cur.Id = before.Id THEN Between(Append(l, cur), NoErr, cache)
    ELSE IF ParentCount(cur) = 0 THEN Between(Append(l, cur), NoErr, cache)
    ELSE LET p == Parent(cache, cur, 0)
         IN  IF p.err # NoErr THEN Between(<<>>, p.err, p.cache)
             ELSE betweenLoopInclusive(p.cache, p.commit, before, Append(l, cur))

CommitsBetweenInclusive(cache, last, before) ==
    IF last = NilCommit \/ ParentCount(last) = 0 THEN Between(<<>>, NoErr, cache)
    ELSE betweenLoopInclusive(cache, last, before, <<>>)

\* a bug: a last without parents enters the loop
CommitsBetweenNoRootCheck(cache, last, before) ==
    IF last = NilCommit THEN Between(<<>>, NoErr, cache)
    ELSE betweenLoop(cache, last, before, <<>>)

CommitsBetween(cache, last, before) ==
    IF last = NilCommit \/ ParentCount(last) = 0 THEN Between(<<>>, NoErr, cache)
    ELSE betweenLoop(cache, last, before, <<>>)

(***************************************************************************)
(* CommitsBefore.  The list is a sequence of elements [h, c]: c is the     *)
(* commit and h the element's handle (a *list.Element), which stays the    *)
(* same when other elements are inserted.  The handle 0 is nil.            *)
(***************************************************************************)
Element(h, c) == [h |-> h, c |-> c]
\* where the element with handle h stands in l
PosOf(l, h) == CHOOSE i \in 1..Len(l) : l[i].h = h
\* l.InsertAfter(v, mark), mark at position pos
InsertAfter(l, pos, elem) == SubSeq(l, 1, pos) \o <<elem>> \o SubSeq(l, pos + 1, Len(l))

\* a bug: the scan does not stop between a newer and an older element
RECURSIVE scanListNoBetween(_, _, _)
scanListNoBetween(l, in, commit) ==
    IF l[in].c.Id = commit.Id THEN [dup |-> TRUE, in |-> in]
    ELSE IF in = Len(l) THEN [dup |-> FALSE, in |-> in]
    ELSE IF l[in].c.when = commit.when THEN [dup |-> FALSE, in |-> in]
    ELSE scanListNoBetween(l, in + 1, commit)

\* the for loop of lines 215-235 from the element at position in: the
\* commit is found (dup) or the loop breaks at the element to insert after
RECURSIVE scanList(_, _, _)
scanList(l, in, commit) ==
    IF l[in].c.Id = commit.Id THEN [dup |-> TRUE, in |-> in]
    ELSE IF in = Len(l) THEN [dup |-> FALSE, in |-> in]
    ELSE IF l[in].c.when = commit.when THEN [dup |-> FALSE, in |-> in]
    ELSE IF l[in].c.when > commit.when /\ l[in + 1].c.when < commit.when
    THEN [dup |-> FALSE, in |-> in]
    ELSE scanList(l, in + 1, commit)

\* what one commitsBefore activation did, kept for the record of the call:
\* op is fail (getCommit failed), push (PushBack), insert (InsertAfter) or
\* dup (the scan found the id); anchor is the parent argument and l the list
\* after the step
Event(op, id, anchor, l) == [op |-> op, id |-> id, anchor |-> anchor, l |-> l]

\* the state of a traversal: the list, the cache, the error and the record
Walk(l, cache, err, log) == [l |-> l, cache |-> cache, err |-> err, log |-> log]

\* commitsBefore(lock, l, parent, id, limit) and its loop over the parents
\* from the i-th on, on the traversal state w
RECURSIVE commitsBefore(_, _, _)
RECURSIVE beforeParents(_, _, _, _)
\* a bug: only the first parent is walked
beforeParentsFirstOnly(w, pr, commit, i) ==
    IF i >= ParentCount(commit) \/ i >= 1 THEN w
    ELSE commitsBefore(w, pr, commit.parents[i + 1])

\* a bug: a parent that fails is skipped and the next one is walked
RECURSIVE beforeParentsSkipFailed(_, _, _, _)
beforeParentsSkipFailed(w, pr, commit, i) ==
    IF i >= ParentCount(commit) THEN w
    ELSE LET sub == commitsBefore(w, pr, commit.parents[i + 1])
         IN  beforeParentsSkipFailed([sub EXCEPT !.err = NoErr], pr, commit, i + 1)

beforeParents(w, pr, commit, i) ==
    IF i >= ParentCount(commit) THEN w
    ELSE LET sub == commitsBefore(w, pr, commit.parents[i + 1])
         IN  IF sub.err # NoErr THEN sub
             ELSE beforeParents(sub, pr, commit, i + 1)

\* a bug: a merge does not become the anchor of its parents
commitsBeforeNoAnchor(w, parent, id) ==
    LET g == getCommit(w.cache, id)
        commit == g.commit
        e == Len(w.l) + 1
        sc == scanList(w.l, PosOf(w.l, parent), commit)
        pr == parent
        pushed == Append(w.l, Element(e, commit))
        inserted == InsertAfter(w.l, sc.in, Element(e, commit))
    IN  IF g.err # NoErr
        THEN Walk(w.l, g.cache, g.err, Append(w.log, Event("fail", id, parent, w.l)))
        ELSE IF parent = 0
        THEN beforeParents(Walk(pushed, g.cache, NoErr,
                                Append(w.log, Event("push", id, parent, pushed))),
                           pr, commit, 0)
        ELSE IF sc.dup
        THEN Walk(w.l, g.cache, NoErr, Append(w.log, Event("dup", id, parent, w.l)))
        ELSE beforeParents(Walk(inserted, g.cache, NoErr,
                                Append(w.log, Event("insert", id, parent, inserted))),
                           pr, commit, 0)

\* a bug: every commit becomes the anchor of its parents
commitsBeforeSelfAnchor(w, parent, id) ==
    LET g == getCommit(w.cache, id)
        commit == g.commit
        e == Len(w.l) + 1
        sc == scanList(w.l, PosOf(w.l, parent), commit)
        pr == e
        pushed == Append(w.l, Element(e, commit))
        inserted == InsertAfter(w.l, sc.in, Element(e, commit))
    IN  IF g.err # NoErr
        THEN Walk(w.l, g.cache, g.err, Append(w.log, Event("fail", id, parent, w.l)))
        ELSE IF parent = 0
        THEN beforeParents(Walk(pushed, g.cache, NoErr,
                                Append(w.log, Event("push", id, parent, pushed))),
                           pr, commit, 0)
        ELSE IF sc.dup
        THEN Walk(w.l, g.cache, NoErr, Append(w.log, Event("dup", id, parent, w.l)))
        ELSE beforeParents(Walk(inserted, g.cache, NoErr,
                                Append(w.log, Event("insert", id, parent, inserted))),
                           pr, commit, 0)

commitsBefore(w, parent, id) ==
    LET g == getCommit(w.cache, id)
        commit == g.commit
        e == Len(w.l) + 1
        sc == scanList(w.l, PosOf(w.l, parent), commit)
        pr == IF ParentCount(commit) > 1 THEN e ELSE parent
        pushed == Append(w.l, Element(e, commit))
        inserted == InsertAfter(w.l, sc.in, Element(e, commit))
    IN  IF g.err # NoErr
        THEN Walk(w.l, g.cache, g.err, Append(w.log, Event("fail", id, parent, w.l)))
        ELSE IF parent = 0
        THEN beforeParents(Walk(pushed, g.cache, NoErr,
                                Append(w.log, Event("push", id, parent, pushed))),
                           pr, commit, 0)
        ELSE IF sc.dup
        THEN Walk(w.l, g.cache, NoErr, Append(w.log, Event("dup", id, parent, w.l)))
        ELSE beforeParents(Walk(inserted, g.cache, NoErr,
                                Append(w.log, Event("insert", id, parent, inserted))),
                           pr, commit, 0)

\* a bug: the list of the call before is used again
getCommitsBeforeShared(cache, id) ==
    commitsBefore(Walk(beforeCall.res.l, cache, NoErr, <<>>), 0, id)

\* getCommitsBefore: a new list, no anchor
getCommitsBefore(cache, id) == commitsBefore(Walk(<<>>, cache, NoErr, <<>>), 0, id)

NoCommitCall ==
    [called |-> FALSE, id |-> 0, again |-> FALSE,
     res |-> GotCommit(NilCommit, NoErr, NilCache, FALSE, FALSE)]
NoBetweenCall ==
    [called |-> FALSE, last |-> NilCommit, before |-> NilCommit,
     res |-> Between(<<>>, NoErr, NilCache)]
NoBeforeCall ==
    [called |-> FALSE, id |-> 0, res |-> Walk(<<>>, NilCache, NoErr, <<>>)]

IdleCommit ==
    /\ graph = <<>>
    /\ unparsable = {}
    /\ commitCache = NilCache
    /\ commitCall = NoCommitCall
    /\ firstGot = <<>>
    /\ betweenCall = NoBetweenCall
    /\ beforeCall = NoBeforeCall
    /\ prevBeforeCall = NoBeforeCall
    /\ calls = 0

\* a goroutine that has not called yet
NoCaller ==
    [pc |-> "idle", op |-> "none", id |-> 0, commit |-> 0, err |-> NoErr, l |-> 0,
     stale |-> FALSE]

IdleConc ==
    /\ callers = <<>>
    /\ heap = <<>>
    /\ lists = <<>>

(***************************************************************************)
(* Fixtures of the reference layer: identifiers, ref paths, loose ref      *)
(* contents and packed-refs lines.                                         *)
(***************************************************************************)
HexA == Rep("a", HashLen)
HexB == Rep("b", HashLen)
NonHex == Rep("g", HashLen)
PathA == <<"r", "e", "f", "s", "/", "a">>
PathB == <<"r", "e", "f", "s", "/", "b">>
PathHead == <<"H", "E", "A", "D">>
RefPaths == {PathA, PathB, PathHead}

\* the content of a symbolic ref
Sym(path) == RefPrefix \o path \o <<NL>>
\* a packed-refs entry
Entry(commit, path) == commit \o <<" ">> \o path

LooseContents40 ==
    {Sym(PathA), Sym(PathB),
     HexA \o <<NL>>,                     \* an identifier and a newline
     Rep("a", HashLen - 1) \o <<NL>>,    \* 40 bytes, the last one not hex
     Rep("a", HashLen - 1),              \* too short
     HexA \o <<NL>> \o Sym(PathB)}       \* an identifier, then a ref: line

RefPackedLineSet ==
    {Entry(HexB, PathA), Entry(HexA, PathB), Entry(NonHex, PathA),
     Entry(HexA, PathA) \o <<" ", "x">>}

PackedLineSet ==
    {Entry(HexA, PathA), Entry(HexB, PathA), Entry(HexB, PathB),
     <<"#", " ">> \o PathA,                  \* a comment
     Entry(HexB, PathA) \o <<" ", "x">>,     \* three tokens
     Entry(HexB, PathHead)}                  \* no refs/ prefix

\* the sequences of at most n elements of S
RECURSIVE SeqsUpTo(_, _)
SeqsUpTo(S, n) ==
    IF n = 0 THEN {<<>>}
    ELSE LET shorter == SeqsUpTo(S, n - 1)
         IN  shorter \cup {Append(q, x) : q \in shorter, x \in S}

PackedFiles(S, n) ==
    {[exists |-> FALSE, lines |-> <<>>]}
        \cup {[exists |-> TRUE, lines |-> q] : q \in SeqsUpTo(S, n)}

IdleObj ==
    /\ looseFiles = {}
    /\ indexfiles = <<>>
    /\ objCall = NoObjCall

(***************************************************************************)
(* getCommitIdOfPackedRef called on its own, on a fixed packed-refs file.  *)
(***************************************************************************)
InitPacked ==
    /\ IdleObj
    /\ IdleCommit
    /\ IdleConc
    /\ looseRefs = <<>>
    /\ packedRefs \in PackedFiles(PackedLineSet, MaxPackedLines)
    /\ refPc = "idle"
    /\ refArg = <<>>
    /\ refpath = <<>>
    /\ refRead = NoRead
    /\ refRes = NoRefRes
    /\ packedCall = NoPackedCall

GetCommitIdOfPackedRef ==
    \E path \in RefPaths, scan \in ScanOutcomes(packedRefs.lines) :
        /\ packedCall' = [called |-> TRUE, path |-> path, scan |-> scan,
                          res |-> getCommitIdOfPackedRef(path, scan)]
        /\ UNCHANGED <<looseRefs, packedRefs, refPc, refArg, refpath, refRead, refRes>>
        /\ UNCHANGED objVars
        /\ UNCHANGED commitVars
        /\ UNCHANGED concVars

NextPacked == GetCommitIdOfPackedRef

SpecPacked == InitPacked /\ [][NextPacked]_vars

(***************************************************************************)
(* getCommitIdOfRef on a fixed set of refs.  RefCall enters the function,  *)
(* RefStep runs one iteration of its loop: it returns, or it jumps back to *)
(* start with the new refpath.                                             *)
(***************************************************************************)
InitRef ==
    /\ IdleObj
    /\ IdleCommit
    /\ IdleConc
    /\ looseRefs \in UNION {[S -> LooseContents40] : S \in SUBSET RefPaths}
    /\ packedRefs \in PackedFiles(RefPackedLineSet, MaxRefPackedLines)
    /\ refPc = "idle"
    /\ refArg = <<>>
    /\ refpath = <<>>
    /\ refRead = NoRead
    /\ refRes = NoRefRes
    /\ packedCall = NoPackedCall

RefCall ==
    \E path \in RefPaths :
        /\ refPc \in {"idle", "done"}
        /\ refPc' = "start"
        /\ refArg' = path
        /\ refpath' = path
        /\ refRead' = NoRead
        /\ refRes' = NoRefRes
        /\ UNCHANGED <<looseRefs, packedRefs, packedCall>>
        /\ UNCHANGED objVars
        /\ UNCHANGED commitVars
        /\ UNCHANGED concVars

RefStep ==
    \E ioFail \in BOOLEAN, scan \in ScanOutcomes(packedRefs.lines) :
        LET it == refIteration(refpath, ioFail, scan)
        IN  /\ refPc = "start"
            /\ refRead' = it.read
            /\ IF it.done
               THEN /\ refPc' = "done"
                    /\ refRes' = [id |-> it.id, err |-> it.err]
                    /\ UNCHANGED refpath
               ELSE /\ refPc' = "start"
                    /\ refpath' = it.next
                    /\ UNCHANGED refRes
            /\ UNCHANGED <<looseRefs, packedRefs, refArg, packedCall>>
            /\ UNCHANGED objVars
            /\ UNCHANGED commitVars
            /\ UNCHANGED concVars

NextRef == RefCall \/ RefStep

SpecRef == InitRef /\ [][NextRef]_vars

\* The same calls on the stores that hold symbolic refs and identifiers only,
\* with no packed-refs file or an empty one.
\* The loop is sequential code: an iteration that can run does run.
InitRefLoop ==
    /\ IdleObj
    /\ IdleCommit
    /\ IdleConc
    /\ looseRefs \in UNION {[S -> {Sym(PathA), Sym(PathB), HexA \o <<NL>>}] :
                               S \in SUBSET RefPaths}
    /\ packedRefs \in PackedFiles({}, 0)
    /\ refPc = "idle"
    /\ refArg = <<>>
    /\ refpath = <<>>
    /\ refRead = NoRead
    /\ refRes = NoRefRes
    /\ packedCall = NoPackedCall

SpecRefFair == InitRefLoop /\ [][NextRef]_vars /\ WF_vars(RefStep)

(***************************************************************************)
(* Commit fixtures: the commit graphs and where their objects are stored.  *)
(***************************************************************************)
\* the sequences of at most n distinct elements of S
DistinctSeqs(S, n) ==
    {q \in SeqsUpTo(S, n) : \A i, j \in 1..Len(q) : i # j => q[i] # q[j]}

\* the commit graphs on 1..n, as sequences of [parents, when]: a commit's
\* parents are commits of lower number, at most span below it and at most
\* maxParents of them, and its committer time is in times
RECURSIVE Graphs(_, _, _, _)
Graphs(n, maxParents, span, times) ==
    IF n = 0 THEN {<<>>}
    ELSE {Append(g, [parents |-> ps, when |-> t]) :
              g \in Graphs(n - 1, maxParents, span, times),
              ps \in DistinctSeqs({j \in 1..(n - 1) : j >= n - span}, maxParents),
              t \in times}

\* the objects in present are stored: odd identifiers as loose files, even
\* ones in the one pack archive
StoredLoose(present) == {id \in present : id % 2 = 1}
StoredPacked(present) ==
    <<[packpath |-> PackPath(1),
       offsetValues |-> [id \in {x \in present : x % 2 = 0} |-> PackedAt(id)]]>>

(***************************************************************************)
(* getCommit, one call after another on one repository handle.             *)
(***************************************************************************)
InitCommit ==
    /\ graph \in Graphs(NumCommits, 1, 1, {1})
    /\ \E present \in SUBSET (1..NumCommits) :
          /\ looseFiles = StoredLoose(present)
          /\ indexfiles = StoredPacked(present)
    /\ unparsable \in SUBSET (1..NumCommits)
    /\ objCall = NoObjCall
    /\ IdleRef
    /\ commitCache = NilCache
    /\ commitCall = NoCommitCall
    /\ firstGot = <<>>
    /\ betweenCall = NoBetweenCall
    /\ beforeCall = NoBeforeCall
    /\ prevBeforeCall = NoBeforeCall
    /\ calls = 0
    /\ IdleConc

GetCommit ==
    \E id \in DOMAIN graph :
        LET g == getCommit(commitCache, id)
        IN  /\ commitCache' = g.cache
            /\ commitCall' = [called |-> TRUE, id |-> id,
                              again |-> id \in DOMAIN firstGot, res |-> g]
            /\ firstGot' = IF g.err = NoErr /\ id \notin DOMAIN firstGot
                           THEN (id :> g.commit) @@ firstGot
                           ELSE firstGot
            /\ UNCHANGED <<graph, unparsable, betweenCall, beforeCall, prevBeforeCall, calls>>
            /\ UNCHANGED objVars
            /\ UNCHANGED refVars
            /\ UNCHANGED concVars

NextCommit == GetCommit

SpecCommit == InitCommit /\ [][NextCommit]_vars

(***************************************************************************)
(* CommitsBetween on commits that getCommit handed out before.             *)
(***************************************************************************)
InitBetween ==
    /\ graph \in Graphs(NumChain, MaxParents, MaxSpan, {1})
    /\ \E missing \in {{}} \cup {{m} : m \in 1..NumChain} :
          /\ looseFiles = StoredLoose((1..NumChain) \ missing)
          /\ indexfiles = StoredPacked((1..NumChain) \ missing)
    /\ unparsable = {}
    /\ objCall = NoObjCall
    /\ IdleRef
    /\ commitCache = NilCache
    /\ commitCall = NoCommitCall
    /\ firstGot = <<>>
    /\ betweenCall = NoBetweenCall
    /\ beforeCall = NoBeforeCall
    /\ prevBeforeCall = NoBeforeCall
    /\ calls = 0
    /\ IdleConc

\* the commits the handle has handed out, and nil
Handed == {Entries(commitCache)[id] : id \in DOMAIN Entries(commitCache)} \cup {NilCommit}

GetCommitCounted ==
    /\ calls < MaxCalls
    /\ calls' = calls + 1
    /\ \E id \in DOMAIN graph : commitCache' = getCommit(commitCache, id).cache
    /\ UNCHANGED <<graph, unparsable, commitCall, firstGot, betweenCall, beforeCall, prevBeforeCall>>
    /\ UNCHANGED objVars
    /\ UNCHANGED refVars
    /\ UNCHANGED concVars

DoCommitsBetween ==
    /\ calls < MaxCalls
    /\ calls' = calls + 1
    /\ \E last \in Handed, before \in Handed :
        LET b == CommitsBetween(commitCache, last, before)
        IN  /\ commitCache' = b.cache
            /\ betweenCall' = [called |-> TRUE, last |-> last, before |-> before,
                               res |-> b]
    /\ UNCHANGED <<graph, unparsable, commitCall, firstGot, beforeCall, prevBeforeCall>>
    /\ UNCHANGED objVars
    /\ UNCHANGED refVars
    /\ UNCHANGED concVars

NextBetween == GetCommitCounted \/ DoCommitsBetween

SpecBetween == InitBetween /\ [][NextBetween]_vars

(***************************************************************************)
(* CommitsBefore, one traversal and then another on one repository handle.  *)
(***************************************************************************)
\* the graphs CommitsBefore walks: any parents of lower number, and committer
\* times in any order, of which the values are 1, 2, ... without a gap (the
\* code compares times only)
BeforeGraphs ==
    {g \in Graphs(NumCommits, MaxParents, NumCommits, 1..MaxTime) :
        \A t \in 2..MaxTime :
            (\E k \in DOMAIN g : g[k].when = t) => \E k \in DOMAIN g : g[k].when = t - 1}

\* the handle before its first call, on the commits in present
InitBeforeOn(present, bad) ==
    /\ looseFiles = StoredLoose(present)
    /\ indexfiles = StoredPacked(present)
    /\ unparsable = bad
    /\ objCall = NoObjCall
    /\ IdleRef
    /\ commitCache = NilCache
    /\ commitCall = NoCommitCall
    /\ firstGot = <<>>
    /\ betweenCall = NoBetweenCall
    /\ beforeCall = NoBeforeCall
    /\ prevBeforeCall = NoBeforeCall
    /\ calls = 0
    /\ IdleConc

\* every commit is stored and parses
InitBefore ==
    /\ graph \in BeforeGraphs
    /\ InitBeforeOn(1..NumCommits, {})

\* a handle is followed through its first two traversals
DoCommitsBefore ==
    /\ ~prevBeforeCall.called
    /\ \E id \in DOMAIN graph :
        LET w == getCommitsBefore(commitCache, id)
        IN  /\ commitCache' = w.cache
            /\ beforeCall' = [called |-> TRUE, id |-> id, res |-> w]
            /\ prevBeforeCall' = beforeCall
    /\ UNCHANGED <<graph, unparsable, commitCall, firstGot, betweenCall, calls>>
    /\ UNCHANGED objVars
    /\ UNCHANGED refVars
    /\ UNCHANGED concVars

NextBefore == DoCommitsBefore

SpecBefore == InitBefore /\ [][NextBefore]_vars

\* one commit is not stored, or is stored and does not parse
InitBeforeFail ==
    /\ graph \in BeforeGraphs
    /\ \E m \in 1..NumCommits :
          \/ InitBeforeOn((1..NumCommits) \ {m}, {})
          \/ InitBeforeOn(1..NumCommits, {m})

\* the first CommitsBefore call on the handle
FirstCommitsBefore ==
    /\ ~beforeCall.called
    /\ DoCommitsBefore

NextBeforeFail == FirstCommitsBefore

SpecBeforeFail == InitBeforeFail /\ [][NextBeforeFail]_vars

(***************************************************************************)
(* Goroutines calling getCommit and CommitsBefore on one repository handle *)
(* at the same time.  No lock is taken anywhere: getCommit has none and    *)
(* the Lock and Unlock calls of commitsBefore are commented out, so a step *)
(* of one goroutine may come between any two steps of another.  In this    *)
(* layer repo.commitCache maps an identifier to a pointer into heap.  A    *)
(* goroutine stands at "check" (line 142), "lookup" (143), "make" (147),   *)
(* "resolve" (150-160), "store" and "storing" (162), "return" (back in     *)
(* its caller), "done", or "fatal" when the runtime has ended the program. *)
(***************************************************************************)
Callers == 1..NumCallers

\* what a step of this layer leaves alone besides the cache and concVars
handleRest == <<graph, unparsable, commitCall, firstGot, betweenCall,
                beforeCall, prevBeforeCall, calls>>

\* the goroutines inside the map assignment of line 162
Storing == {q \in Callers : callers[q].pc = "storing"}

\* the runtime finds two goroutines in the map at once and ends the program
\* (fatal error: concurrent map writes, or concurrent map read and map write)
Fatal == [q \in Callers |-> [callers[q] EXCEPT !.pc = "fatal"]]

\* every commit is stored, commits have one parent at most, and one of
\* them may not parse
InitConc ==
    /\ graph \in Graphs(NumCommits, 1, 1, {1})
    /\ looseFiles = StoredLoose(1..NumCommits)
    /\ indexfiles = StoredPacked(1..NumCommits)
    /\ unparsable \in {{}} \cup {{m} : m \in 1..NumCommits}
    /\ objCall = NoObjCall
    /\ IdleRef
    /\ commitCache = NilCache
    /\ commitCall = NoCommitCall
    /\ firstGot = <<>>
    /\ betweenCall = NoBetweenCall
    /\ beforeCall = NoBeforeCall
    /\ prevBeforeCall = NoBeforeCall
    /\ calls = 0
    /\ callers = [p \in Callers |-> NoCaller]
    /\ heap = <<>>
    /\ lists = <<>>

\* a goroutine calls GetCommit, or CommitsBefore, which makes its list
\* (line 197) and calls commitsBefore with a nil anchor (line 199)
Call(p) ==
    /\ callers[p].pc = "idle"
    /\ \E id \in DOMAIN graph :
          \/ /\ callers' = [callers EXCEPT ![p] =
                               [NoCaller EXCEPT !.pc = "check", !.op = "getCommit",
                                                !.id = id]]
             /\ UNCHANGED lists
          \/ /\ callers' = [callers EXCEPT ![p] =
                               [NoCaller EXCEPT !.pc = "check", !.op = "CommitsBefore",
                                                !.id = id, !.l = Len(lists) + 1]]
             /\ lists' = Append(lists, <<>>)
    /\ UNCHANGED <<commitCache, heap>>
    /\ UNCHANGED handleRest
    /\ UNCHANGED objVars
    /\ UNCHANGED refVars

\* line 142: is repo.commitCache nil
Check(p) ==
    /\ callers[p].pc = "check"
    /\ callers' = [callers EXCEPT
                      ![p].pc = IF commitCache.isNil THEN "make" ELSE "lookup"]
    /\ UNCHANGED <<commitCache, heap, lists>>
    /\ UNCHANGED handleRest
    /\ UNCHANGED objVars
    /\ UNCHANGED refVars

\* lines 143-145: the map read.  While another goroutine is inside its map
\* assignment the read is a data race: it finds the old entry or the one
\* being written, or the runtime ends the program
Lookup(p) ==
    /\ callers[p].pc = "lookup"
    /\ LET id == callers[p].id
           racing == Storing \ {p}
           found ==
               (IF id \in DOMAIN commitCache.m THEN {commitCache.m[id]} ELSE {0})
                   \cup {callers[q].commit :
                             q \in {r \in racing : callers[r].id = id /\ ~callers[r].stale}}
       IN  \/ \E c \in found :
                 callers' = [callers EXCEPT
                                ![p].pc = IF c # 0 THEN "return" ELSE "resolve",
                                ![p].commit = c]
           \/ /\ racing # {}
              /\ callers' = Fatal
    /\ UNCHANGED <<commitCache, heap, lists>>
    /\ UNCHANGED handleRest
    /\ UNCHANGED objVars
    /\ UNCHANGED refVars

\* line 147: a new map is put in repo.commitCache; an assignment another
\* goroutine has begun goes to the map that was there before
Make(p) ==
    /\ callers[p].pc = "make"
    /\ commitCache' = [isNil |-> FALSE, m |-> <<>>]
    /\ callers' = [q \in Callers |->
                      IF q = p THEN [callers[q] EXCEPT !.pc = "resolve"]
                      ELSE IF q \in Storing THEN [callers[q] EXCEPT !.stale = TRUE]
                      ELSE callers[q]]
    /\ UNCHANGED <<heap, lists>>
    /\ UNCHANGED handleRest
    /\ UNCHANGED objVars
    /\ UNCHANGED refVars

\* lines 150-160: the object is resolved and parsed into a new record
Resolve(p) ==
    /\ callers[p].pc = "resolve"
    /\ LET id == callers[p].id
           o == object(id, FALSE)
           d == parseCommitData(o.obj.Data)
       IN  IF o.err # NoErr
           THEN /\ callers' = [callers EXCEPT ![p].pc = "return", ![p].err = o.err]
                /\ UNCHANGED heap
           ELSE IF d.err # NoErr
           THEN /\ callers' = [callers EXCEPT ![p].pc = "return", ![p].err = d.err]
                /\ UNCHANGED heap
           ELSE /\ heap' = Append(heap, [d.commit EXCEPT !.Id = id])
                /\ callers' = [callers EXCEPT ![p].pc = "store",
                                              ![p].commit = Len(heap) + 1]
    /\ UNCHANGED <<commitCache, lists>>
    /\ UNCHANGED handleRest
    /\ UNCHANGED objVars
    /\ UNCHANGED refVars

\* line 162, entering the map assignment: with another goroutine inside it
\* the runtime may end the program
StoreBegin(p) ==
    /\ callers[p].pc = "store"
    /\ \/ callers' = [callers EXCEPT ![p].pc = "storing", ![p].stale = FALSE]
       \/ /\ Storing # {}
          /\ callers' = Fatal
    /\ UNCHANGED <<commitCache, heap, lists>>
    /\ UNCHANGED handleRest
    /\ UNCHANGED objVars
    /\ UNCHANGED refVars

\* line 162, the entry is written
StoreEnd(p) ==
    /\ callers[p].pc = "storing"
    /\ commitCache' =
           IF callers[p].stale THEN commitCache
           ELSE [commitCache EXCEPT
                    !.m = (callers[p].id :> callers[p].commit) @@ commitCache.m]
    /\ callers' = [callers EXCEPT ![p].pc = "return"]
    /\ UNCHANGED <<heap, lists>>
    /\ UNCHANGED handleRest
    /\ UNCHANGED objVars
    /\ UNCHANGED refVars

\* getCommit returns (lines 144, 152, 157, 164).  GetCommit hands the result
\* on.  commitsBefore returns the error (line 206); else, its anchor being
\* nil as no commit here has two parents, it pushes the commit on its list
\* (line 211) and goes on with the parent, if there is one (lines 246-251)
Return(p) ==
    /\ callers[p].pc = "return"
    /\ LET c == callers[p]
       IN  IF c.op = "getCommit" \/ c.err # NoErr
           THEN /\ callers' = [callers EXCEPT ![p].pc = "done"]
                /\ UNCHANGED lists
           ELSE /\ lists' = [lists EXCEPT ![c.l] = Append(lists[c.l], c.commit)]
                /\ callers' =
                       IF ParentCount(heap[c.commit]) = 0
                       THEN [callers EXCEPT ![p].pc = "done"]
                       ELSE [callers EXCEPT ![p].pc = "check",
                                            ![p].id = heap[c.commit].parents[1],
                                            ![p].commit = 0]
    /\ UNCHANGED <<commitCache, heap>>
    /\ UNCHANGED handleRest
    /\ UNCHANGED objVars
    /\ UNCHANGED refVars

NextConc ==
    \E p \in Callers :
        \/ Call(p)
        \/ Check(p)
        \/ Lookup(p)
        \/ Make(p)
        \/ Resolve(p)
        \/ StoreBegin(p)
        \/ StoreEnd(p)
        \/ Return(p)

SpecConc == InitConc /\ [][NextConc]_vars

(***************************************************************************)
(* The object resolution layer as a state machine: a fixed repository and  *)
(* one getRawObject call after another.                                    *)
(***************************************************************************)
\* the partial maps identifier -> offset an index file can hold
OffsetMaps(ids) == UNION {[s -> Offsets] : s \in SUBSET ids}

\* the index sets of n files, the k-th one indexing archive PackPath(k)
IndexSets(ids, n) ==
    {[k \in 1..n |-> [packpath |-> PackPath(k), offsetValues |-> m[k]]] :
        m \in [1..n -> OffsetMaps(ids)]}

InitObj ==
    /\ looseFiles \in SUBSET ObjIds
    /\ indexfiles \in UNION {IndexSets(ObjIds, n) : n \in 0..MaxIndexFiles}
    /\ objCall = NoObjCall
    /\ IdleRef
    /\ IdleCommit
    /\ IdleConc

GetRawObject ==
    \E id \in ObjIds, metaOnly \in BOOLEAN, looseFail \in BOOLEAN, packFail \in BOOLEAN :
        /\ objCall' = [called |-> TRUE, id |-> id, metaOnly |-> metaOnly,
                       looseFail |-> looseFail, packFail |-> packFail,
                       res |-> getRawObject(id, metaOnly, looseFail, packFail)]
        /\ UNCHANGED <<looseFiles, indexfiles>>
        /\ UNCHANGED refVars
        /\ UNCHANGED commitVars
        /\ UNCHANGED concVars

NextObj == GetRawObject

SpecObj == InitObj /\ [][NextObj]_vars

(***************************************************************************)
(* Claims about the object resolution layer (checked under SpecObj).       *)
(***************************************************************************)
\* the index files of the repository that hold id
Holders(id) == {k \in 1..Len(indexfiles) : id \in DOMAIN indexfiles[k].offsetValues}
\* the first of them in discovery order
FirstHolder(id) == CHOOSE k \in Holders(id) : \A j \in Holders(id) : k <= j
\* the stream a decoder hands out under metaOnly
StreamFor(metaOnly, stream) == IF metaOnly THEN NoStream ELSE stream

\* C1: a successful loose read decides the result even if a pack index holds
\* the id; when the loose file does not exist the pack decoder is called with
\* the archive path and the offset of the first index, in discovery order,
\* that holds the id, and its object is returned.
C1_LooseFirstThenFirstPack ==
    objCall.called =>
        LET id == objCall.id
            r == objCall.res
            lr == readObjectFile(id, objCall.metaOnly, objCall.looseFail)
        IN  /\ lr.err = NoErr =>
                /\ r.err = NoErr
                /\ r.obj = Object(LooseContents(id).ot, LooseContents(id).length,
                                  StreamFor(objCall.metaOnly,
                                            [from |-> "loose", path |-> filepathFromSHA1(id),
                                             off |-> 0]))
                /\ r.decodes = <<LooseDecode(id)>>
            /\ (lr.err = ErrNotExist /\ Holders(id) # {}) =>
                LET first == indexfiles[FirstHolder(id)]
                    path == first.packpath
                    offset == first.offsetValues[id]
                IN  /\ r.decodes = <<LooseDecode(id), PackDecode(path, offset)>>
                    /\ ~objCall.packFail =>
                        /\ r.err = NoErr
                        /\ r.obj = Object(PackContents(path, offset).ot,
                                          PackContents(path, offset).length,
                                          StreamFor(objCall.metaOnly,
                                                    [from |-> "pack", path |-> path,
                                                     off |-> offset]))

\* an object decoded from the first of two index files that hold the id at
\* different offsets
C1_Witness ==
    /\ objCall.called
    /\ objCall.id \notin looseFiles
    /\ objCall.res.err = NoErr
    /\ objCall.res.obj.Data.from = "pack"
    /\ Cardinality(Holders(objCall.id)) = 2
    /\ indexfiles[1].offsetValues[objCall.id] # indexfiles[2].offsetValues[objCall.id]

\* C2: the call fails with ObjectNotFound(id) exactly when the loose read
\* reports not-exist and no index file holds the id; then ObjectNotFound
\* carries the requested id and no pack decoder was invoked.
C2_ObjectNotFoundIff ==
    objCall.called =>
        LET id == objCall.id
            r == objCall.res
            lr == readObjectFile(id, objCall.metaOnly, objCall.looseFail)
        IN  /\ (r.err.kind = "ObjectNotFound") <=> (lr.err = ErrNotExist /\ Holders(id) = {})
            /\ r.err.kind = "ObjectNotFound" =>
                /\ r.err = ObjectNotFound(id)
                /\ r.obj = NilObject
                /\ \A i \in 1..Len(r.decodes) : r.decodes[i].decoder # "pack"

\* an identifier in neither store, while the other identifier is packed
C2_Witness ==
    /\ objCall.called
    /\ objCall.res.err = ObjectNotFound(objCall.id)
    /\ Len(indexfiles) > 0
    /\ \E other \in ObjIds : Holders(other) # {}

(***************************************************************************)
(* Claims about the reference resolution layer.                            *)
(***************************************************************************)
\* the content holds ref: , then characters other than a newline, then a newline
MatchesSymbolic(f) ==
    \E i \in 1..Len(f), j \in 1..Len(f) :
        /\ j >= i + 5
        /\ \A k \in 0..4 : f[i + k] = RefPrefix[k + 1]
        /\ f[j] = NL
\* the iteration that ended the call got a content, loose or packed
ContentReached ==
    \/ refRead.looseErr = RefNoErr
    \/ refRead.packed /\ refRead.packedErr = RefNoErr
\* the lines of the packed-refs file that are entries for path: a 40-character
\* identifier, a space and a path under refs/
EntryLinesFor(lines, path) ==
    {i \in 1..Len(lines) :
        /\ path \in {PathA, PathB}
        /\ \E c \in {HexA, HexB, NonHex} : lines[i] = Entry(c, path)}

\* C3: every getCommitIdOfRef call returns: once the call is at its label
\* start, it eventually is done, whatever the refs point to.
C3_RefCallTerminates == [](refPc = "start" => <>(refPc = "done"))

\* C4: when the call ends on a content that is not symbolic, it returns the
\* first 40 bytes if there are 40 and they are hex, and otherwise fails with
\* one of the two parse errors; a returned identifier is 40 hex characters.
C4_DirectContentParsed ==
    refPc = "done" =>
        /\ (ContentReached /\ ~MatchesSymbolic(refRead.f)) =>
              /\ refRead.looseErr = RefNoErr => refRead.f = looseRefs[refpath]
              /\ IF Len(refRead.f) >= HashLen
                     /\ \A i \in 1..HashLen : refRead.f[i] \in HexChars
                 THEN /\ refRes.err = RefNoErr
                      /\ refRes.id = SubSeq(refRead.f, 1, HashLen)
                 ELSE /\ refRes.err.kind \in {"ObjectID hash too short",
                                              "heads file wrong ObjectID string"}
                      /\ refRes.id = <<>>
        /\ refRes.err = RefNoErr =>
              /\ Len(refRes.id) = HashLen
              /\ \A i \in 1..HashLen : refRes.id[i] \in HexChars

\* an identifier returned from a file longer than 40 bytes, reached through
\* a symbolic ref
C4_Witness ==
    /\ refPc = "done"
    /\ refpath # refArg
    /\ refRes.err = RefNoErr
    /\ refRead.looseErr = RefNoErr
    /\ Len(refRead.f) > HashLen
    /\ refRes.id = HexA

\* C5: when the path being resolved has no loose file and packed-refs is
\* absent, or was read to its end and has no entry for the path, the call
\* fails with RefNotFound of that path; ErrNoPackedRefs is never returned.
C5_RefNotFoundNamesPath ==
    refPc = "done" =>
        /\ ( /\ refRead.looseErr = RefNotExist
             /\ \/ ~packedRefs.exists
                \/ /\ EntryLinesFor(packedRefs.lines, refpath) = {}
                   /\ refRead.packedErr # ScanError ) =>
              /\ refpath \notin DOMAIN looseRefs
              /\ refRes.err = RefNotFound(refpath)
              /\ refRes.id = <<>>
        /\ refRes.err.kind # "ErrNoPackedRefs"

\* a symbolic ref whose target has no loose file, with no packed-refs file
C5_Witness ==
    /\ refPc = "done"
    /\ refpath # refArg
    /\ ~packedRefs.exists
    /\ refRes.err = RefNotFound(refpath)

\* C6: a lookup that reads the packed-refs file to its end returns the
\* identifier of the first entry line for the path, whatever other lines
\* stand before it, and RefNotFound of the path when there is none; without
\* a packed-refs file it fails with ErrNoPackedRefs.
C6_FirstPackedEntryWins ==
    packedCall.called =>
        LET lines == packedRefs.lines
            path == packedCall.path
            res == packedCall.res
            hits == EntryLinesFor(lines, path)
        IN  /\ ~packedRefs.exists => res = [f |-> <<>>, err |-> ErrNoPackedRefs]
            /\ (packedRefs.exists /\ ~packedCall.scan.err) =>
                  IF hits = {}
                  THEN res = [f |-> <<>>, err |-> RefNotFound(path)]
                  ELSE LET first == CHOOSE i \in hits : \A j \in hits : i <= j
                       IN  /\ res.err = RefNoErr
                           /\ lines[first] = Entry(res.f, path)

\* a three-token line, then two entries for the path: the first entry wins
C6_Witness ==
    /\ packedCall.called
    /\ packedCall.path = PathA
    /\ ~packedCall.scan.err
    /\ Len(packedRefs.lines) = 3
    /\ Len(Fields(packedRefs.lines[1])) = 3
    /\ packedRefs.lines[2] = Entry(HexA, PathA)
    /\ packedRefs.lines[3] = Entry(HexB, PathA)
    /\ packedCall.res = [f |-> HexA, err |-> RefNoErr]

(***************************************************************************)
(* Claims about the commit cache and the traversals.                       *)
(***************************************************************************)
\* C7: a getCommit(id) call made after one that succeeded for the same id
\* returns the record the first one returned, without resolving the object
\* and without parsing.
C7_RepeatedGetCommitHitsCache ==
    commitCall.again =>
        /\ commitCall.res.err = NoErr
        /\ commitCall.res.commit = firstGot[commitCall.id]
        /\ commitCall.res.commit.Id = commitCall.id
        /\ ~commitCall.res.resolved
        /\ ~commitCall.res.parsed

\* a repeated call, with another commit cached in between and an identifier
\* that cannot be got
C7_Witness ==
    /\ commitCall.again
    /\ Cardinality(DOMAIN firstGot) >= 2
    /\ \E id \in DOMAIN graph : getCommit(commitCache, id).err # NoErr

\* one getCommit call, from the cache before it to the cache after it
C8_Step ==
    LET old == Entries(commitCache)
        new == Entries(commitCache')
        call == commitCall'
        added == DOMAIN new \ DOMAIN old
    IN  /\ DOMAIN old \subseteq DOMAIN new
        /\ \A id \in DOMAIN old : new[id] = old[id]
        /\ \A id \in DOMAIN new : new[id].Id = id
        /\ added \subseteq {call.id}
        /\ added # {} =>
              /\ call.res.err = NoErr
              /\ call.res.resolved /\ call.res.parsed
              /\ new[call.id] = call.res.commit
        /\ (call.res.err # NoErr \/ ~call.res.resolved) => added = {}

\* C8: every getCommit call leaves the cached records as they are, adds at
\* most the record of its own id, stored under that id, and adds it only
\* when it missed the cache and succeeded.
C8_CacheOnlyGrows == [][C8_Step]_vars

\* a call that failed on a handle whose cache holds a commit
C8_Witness ==
    /\ commitCall.called
    /\ commitCall.res.err # NoErr
    /\ DOMAIN Entries(commitCache) # {}

\* the identifiers on the first-parent chain from id down to a root
RECURSIVE FirstParentChain(_)
FirstParentChain(id) ==
    IF graph[id].parents = <<>> THEN <<id>>
    ELSE <<id>> \o FirstParentChain(graph[id].parents[1])

\* the identifiers of a list of commits
IdsOf(l) == [i \in 1..Len(l) |-> l[i].Id]

\* C9: for a last with a parent, a CommitsBetween call that returns a list
\* returns the first-parent chain of last, newest first, cut before the first
\* commit with the id of before, or whole when before is not on it; on the
\* linear chain 5, 4, 3, 2, 1 with last 5 and before 2 it returns 5, 4, 3.
C9_BetweenIsFirstParentChain ==
    ( /\ betweenCall.called
      /\ betweenCall.last # NilCommit
      /\ ParentCount(betweenCall.last) >= 1
      /\ betweenCall.before # NilCommit
      /\ betweenCall.res.err = NoErr ) =>
        LET last == betweenCall.last
            before == betweenCall.before
            l == betweenCall.res.l
            chain == FirstParentChain(last.Id)
            met == {i \in 1..Len(chain) : chain[i] = before.Id}
            cut == IF met = {} THEN Len(chain)
                   ELSE (CHOOSE i \in met : \A j \in met : i <= j) - 1
        IN  /\ IdsOf(l) = SubSeq(chain, 1, cut)
            /\ \A i \in 1..Len(l) :
                  /\ l[i].Id # before.Id
                  /\ l[i].parents = graph[l[i].Id].parents
            /\ last.Id = before.Id => l = <<>>
            /\ ( /\ graph[1].parents = <<>>
                 /\ \A k \in 2..5 : graph[k].parents = <<k - 1>>
                 /\ last.Id = 5
                 /\ before.Id = 2 ) => IdsOf(l) = <<5, 4, 3>>

\* a walk from a merge commit whose second parent is left aside, stopped at
\* before after two commits or more
C9_Witness ==
    /\ betweenCall.called
    /\ betweenCall.res.err = NoErr
    /\ ParentCount(betweenCall.last) = 2
    /\ Len(betweenCall.res.l) >= 2
    /\ \E i \in 1..Len(FirstParentChain(betweenCall.last.Id)) :
          FirstParentChain(betweenCall.last.Id)[i] = betweenCall.before.Id
    /\ \A i \in 1..Len(betweenCall.res.l) :
          betweenCall.res.l[i].Id # betweenCall.last.parents[2]

\* C15: in every iteration of getCommitIdOfRef packed-refs is consulted
\* exactly when the loose read of the current path reports not-exist; a loose
\* file that was read decides the outcome whatever packed-refs holds for the
\* path, and another loose read error ends the call with that error.
C15_PackedOnlyWhenLooseAbsent ==
    refRead.path # <<>> =>
        /\ refRead.packed <=> refRead.looseErr = RefNotExist
        /\ refRead.looseErr = RefNotExist => refRead.path \notin DOMAIN looseRefs
        /\ refRead.looseErr = RefNoErr =>
              /\ refRead.path \in DOMAIN looseRefs
              /\ refRead.f = looseRefs[refRead.path]
              /\ (refPc = "done" /\ refRes.err = RefNoErr) =>
                    refRes.id = SubSeq(looseRefs[refRead.path], 1, HashLen)
        /\ refRead.looseErr = RefIOError =>
              /\ refPc = "done"
              /\ refRes = [id |-> <<>>, err |-> RefIOError]

\* the loose file of refs/a holds one identifier and packed-refs another
\* one for refs/a; the loose one is returned
C15_Witness ==
    /\ refPc = "done"
    /\ refRead.path = PathA
    /\ PathA \in DOMAIN looseRefs
    /\ packedRefs.exists
    /\ \E i \in 1..Len(packedRefs.lines) : packedRefs.lines[i] = Entry(HexB, PathA)
    /\ refRes = [id |-> HexA, err |-> RefNoErr]

\* C16: a loose read that fails with an error other than not-exist ends the
\* call with that error, without a probe of the index set and without a pack
\* decode, whatever the index files hold; a pack decoder error is returned
\* as it is, after one pack decode.
C16_DecoderErrorsPropagate ==
    objCall.called =>
        LET id == objCall.id
            r == objCall.res
        IN  /\ objCall.looseFail =>
                  /\ r.err = LooseIOError
                  /\ r.obj = NilObject
                  /\ ~r.probed
                  /\ r.decodes = <<LooseDecode(id)>>
            /\ (~objCall.looseFail /\ id \notin looseFiles
                    /\ Holders(id) # {} /\ objCall.packFail) =>
                  /\ r.err = PackIOError
                  /\ r.obj = NilObject
                  /\ Len(r.decodes) = 2
                  /\ r.decodes[2].decoder = "pack"
                  /\ r.decodes[2].path = indexfiles[FirstHolder(id)].packpath

\* the loose read fails on an id that two index files hold
C16_Witness ==
    /\ objCall.called
    /\ objCall.looseFail
    /\ Cardinality(Holders(objCall.id)) = 2
    /\ objCall.res.err = LooseIOError

\* C17: CommitsBetween returns an empty list and no error when last is nil
\* or has no parents, whatever before is, nil included; a root that the walk
\* reaches through first parents without meeting before ends the result.
C17_EmptyForNilOrRootLast ==
    betweenCall.called =>
        /\ (betweenCall.last = NilCommit \/ ParentCount(betweenCall.last) = 0) =>
              /\ betweenCall.res.l = <<>>
              /\ betweenCall.res.err = NoErr
        /\ ( /\ betweenCall.last # NilCommit
             /\ ParentCount(betweenCall.last) >= 1
             /\ betweenCall.before # NilCommit
             /\ betweenCall.res.err = NoErr
             /\ \A i \in 1..Len(FirstParentChain(betweenCall.last.Id)) :
                   FirstParentChain(betweenCall.last.Id)[i] # betweenCall.before.Id ) =>
              /\ betweenCall.res.l # <<>>
              /\ ParentCount(betweenCall.res.l[Len(betweenCall.res.l)]) = 0

\* last is a root, before another commit
C17_Witness ==
    /\ betweenCall.called
    /\ betweenCall.last # NilCommit
    /\ ParentCount(betweenCall.last) = 0
    /\ betweenCall.before # NilCommit
    /\ betweenCall.before.Id # betweenCall.last.Id
    /\ betweenCall.res.l = <<>>

\* C10: the list CommitsBefore returns holds no commit identifier twice.
C10_NoIdTwice ==
    beforeCall.called =>
        \A i, j \in 1..Len(beforeCall.res.l) :
            i # j => beforeCall.res.l[i].c.Id # beforeCall.res.l[j].c.Id

(***************************************************************************)
(* Claims about CommitsBefore.                                             *)
(***************************************************************************)
\* id and every commit reachable from it through any parent
RECURSIVE Ancestors(_)
Ancestors(id) ==
    {id} \cup UNION {Ancestors(graph[id].parents[i]) : i \in 1..Len(graph[id].parents)}

\* the identifiers in a list of elements
ListIds(l) == {l[i].c.Id : i \in 1..Len(l)}

\* C11: a CommitsBefore(id) call that succeeds returns a list whose
\* identifiers are id and all the commits reachable from id through any
\* parent, and no other.
C11_ResultIsAncestry ==
    (beforeCall.called /\ beforeCall.res.err = NoErr) =>
        ListIds(beforeCall.res.l) = Ancestors(beforeCall.id)

\* a merge of which one parent is reached a second time and found in the list
C11_Witness ==
    /\ beforeCall.called
    /\ beforeCall.res.err = NoErr
    /\ ParentCount(graph[beforeCall.id]) = 2
    /\ Cardinality(Ancestors(beforeCall.id)) >= 3
    /\ \E i \in 1..Len(beforeCall.res.log) : beforeCall.res.log[i].op = "dup"

\* the times of the commits reachable from id differ and every commit is
\* newer than its parents
SaneTimes(id) ==
    /\ \A a, b \in Ancestors(id) : a # b => graph[a].when # graph[b].when
    /\ \A a \in Ancestors(id) : \A i \in 1..Len(graph[a].parents) :
          graph[a].when > graph[graph[a].parents[i]].when

\* a stands before b somewhere in l
StandsBefore(l, a, b) ==
    \E i, j \in 1..Len(l) : i < j /\ l[i].c.Id = a /\ l[j].c.Id = b

\* of the two calls, one is on a merge of two parents with differing times
\* and the other on one of these parents
MergeAndParent(m, p) ==
    /\ m.called /\ p.called
    /\ ParentCount(graph[m.id]) = 2
    /\ graph[graph[m.id].parents[1]].when # graph[graph[m.id].parents[2]].when
    /\ p.id \in {graph[m.id].parents[1], graph[m.id].parents[2]}

\* any two commits in both lists stand in the same order in both
SameOrder(l1, l2) ==
    \A a, b \in ListIds(l1) \cap ListIds(l2) :
        a # b => (StandsBefore(l1, a, b) <=> StandsBefore(l2, a, b))

\* C12: the lists of CommitsBefore on a merge of two parents with differing
\* times and on one of its parents hold their common commits in the same
\* relative order.
C12_OrderKeptFromParent ==
    /\ MergeAndParent(beforeCall, prevBeforeCall) =>
          SameOrder(beforeCall.res.l, prevBeforeCall.res.l)
    /\ MergeAndParent(prevBeforeCall, beforeCall) =>
          SameOrder(beforeCall.res.l, prevBeforeCall.res.l)

\* C12, amended: when the commits reachable from the merge have distinct
\* times and each is newer than its parents, the two lists hold their common
\* commits in the same relative order.
C12_OrderKeptOnSaneTimes ==
    /\ (MergeAndParent(beforeCall, prevBeforeCall) /\ SaneTimes(beforeCall.id)) =>
          SameOrder(beforeCall.res.l, prevBeforeCall.res.l)
    /\ (MergeAndParent(prevBeforeCall, beforeCall) /\ SaneTimes(prevBeforeCall.id)) =>
          SameOrder(beforeCall.res.l, prevBeforeCall.res.l)

\* a merge, then one of its parents, with two commits in both lists
C12_Witness ==
    /\ MergeAndParent(prevBeforeCall, beforeCall)
    /\ SaneTimes(prevBeforeCall.id)
    /\ Cardinality(ListIds(beforeCall.res.l) \cap ListIds(prevBeforeCall.res.l)) >= 2

\* C13: two CommitsBefore calls in a row for the same id on one handle return
\* the same list, whatever the cache held before the first one.
C13_SameListTwice ==
    (beforeCall.called /\ prevBeforeCall.called /\ beforeCall.id = prevBeforeCall.id) =>
        /\ beforeCall.res.l = prevBeforeCall.res.l
        /\ beforeCall.res.err = prevBeforeCall.res.err

\* the second of two calls on a merge with three commits or more to list
C13_Witness ==
    /\ beforeCall.called /\ prevBeforeCall.called
    /\ beforeCall.id = prevBeforeCall.id
    /\ ParentCount(graph[beforeCall.id]) = 2
    /\ Len(beforeCall.res.l) >= 3

\* the error getCommit gives for id on this repository
GetError(id) ==
    IF id \in unparsable THEN ParseError
    ELSE IF id \notin looseFiles /\ Holders(id) = {} THEN ObjectNotFound(id)
    ELSE NoErr

\* C14: a CommitsBefore call fails exactly when a getCommit of the walk
\* fails; that failure is the last thing the walk does, its error is
\* returned, and the list is the one built up to then.
C14_AbortsAtFirstFailure ==
    beforeCall.called =>
        LET r == beforeCall.res
            n == Len(r.log)
        IN  /\ n >= 1
            /\ \A i \in 1..(n - 1) : r.log[i].op # "fail"
            /\ r.err # NoErr <=> r.log[n].op = "fail"
            /\ r.log[n].op = "fail" =>
                  /\ r.err = GetError(r.log[n].id)
                  /\ r.err # NoErr
                  /\ r.l = r.log[n].l
                  /\ r.log[n].id \notin ListIds(r.l)
            /\ \A i \in 1..n : r.log[i].op # "fail" => GetError(r.log[i].id) = NoErr

\* the walk of a merge fails in its first parent and leaves the other unvisited
C14_Witness ==
    /\ beforeCall.called
    /\ beforeCall.res.err # NoErr
    /\ Len(beforeCall.res.l) >= 1
    /\ \E id \in Ancestors(beforeCall.id) :
          /\ GetError(id) = NoErr
          /\ id \notin ListIds(beforeCall.res.l)

\* C18: the starting commit is pushed on the empty list, and every later
\* step of the walk has an anchor: the position of the starting commit for
\* its parents, and never nil.
C18_StartIsAnchor ==
    (beforeCall.called /\ beforeCall.res.log[1].op # "fail") =>
        LET log == beforeCall.res.log
        IN  /\ log[1].op = "push"
            /\ log[1].anchor = 0
            /\ Len(log[1].l) = 1
            /\ log[1].l[1].c.Id = beforeCall.id
            /\ \A i \in 2..Len(log) :
                  /\ log[i].anchor # 0
                  /\ log[i].op # "push"

\* C18, amended: the starting commit is pushed on the empty list; as long
\* as only commits with one parent or none have been taken the anchor is nil
\* and the next commit is pushed at the tail as well; from the first merge
\* on, the starting commit if it is one, every commit is placed by the scan
\* from an anchor, which for the parents of that merge is its own element.
C18_AnchorFromFirstMerge ==
    (beforeCall.called /\ beforeCall.res.log[1].op # "fail") =>
        LET log == beforeCall.res.log
            linear(i) == \A k \in 1..(i - 1) : ParentCount(graph[log[k].id]) <= 1
        IN  /\ log[1].op = "push"
            /\ log[1].anchor = 0
            /\ Len(log[1].l) = 1
            /\ log[1].l[1].c.Id = beforeCall.id
            /\ \A i \in 2..Len(log) :
                  /\ log[i].anchor = 0 <=> linear(i)
                  /\ log[i].op = "push" <=> (linear(i) /\ log[i].op # "fail")
                  /\ (~linear(i) /\ linear(i - 1)) => log[i].anchor = log[i - 1].l[i - 1].h

\* a chain of three commits, all pushed without an anchor
C18_Witness ==
    /\ beforeCall.called
    /\ Len(beforeCall.res.log) = 3
    /\ \A i \in 1..3 : beforeCall.res.log[i].op = "push" /\ beforeCall.res.log[i].anchor = 0

\* the list is in strictly descending order of committer time
Descending(l) == \A i \in 1..(Len(l) - 1) : l[i].c.when > l[i + 1].c.when

\* C19: on commits with distinct times, each newer than its parents, the
\* list is in strictly descending order of time after every step of
\* CommitsBefore, and in the result a commit stands before its ancestors.
C19_DescendingAfterEveryInsert ==
    (beforeCall.called /\ SaneTimes(beforeCall.id)) =>
        LET r == beforeCall.res
        IN  /\ \A i \in 1..Len(r.log) : Descending(r.log[i].l)
            /\ Descending(r.l)
            /\ \A i, j \in 1..Len(r.l) :
                  (r.l[j].c.Id \in Ancestors(r.l[i].c.Id) /\ i # j) => i < j

\* a commit is inserted between two elements of the list
C19_Witness ==
    /\ beforeCall.called
    /\ SaneTimes(beforeCall.id)
    /\ \E i \in 1..Len(beforeCall.res.log) :
          LET e == beforeCall.res.log[i]
          IN  /\ e.op = "insert"
              /\ e.l[Len(e.l)].c.Id # e.id

(***************************************************************************)
(* Claims about concurrent callers.                                        *)
(***************************************************************************)
\* the positions between the check of the cache and the insert into it
InGetCommit == {"lookup", "make", "resolve", "store", "storing"}

\* the record first made for the identifier of record c
FirstRecord(c) == CHOOSE i \in 1..Len(heap) :
                      /\ heap[i].Id = heap[c].Id
                      /\ \A j \in 1..Len(heap) : heap[j].Id = heap[c].Id => i <= j

\* C20: with two goroutines in getCommit or CommitsBefore on one handle, at
\* most one of them is between the cache check and the insert at any time
\* and the runtime never finds two in the map; no identifier is parsed into
\* two records; whatever a caller was given, holds in its list or finds in
\* the cache is the one record of its identifier; and no two traversals have
\* the same list.
C20_CacheAccessExclusive ==
    /\ Cardinality({p \in Callers : callers[p].pc \in InGetCommit}) <= 1
    /\ \A p \in Callers : callers[p].pc # "fatal"
    /\ \A i, j \in 1..Len(heap) : heap[i].Id = heap[j].Id => i = j
    /\ \A p \in Callers : callers[p].commit # 0 =>
          callers[p].commit = FirstRecord(callers[p].commit)
    /\ \A k \in 1..Len(lists) : \A i \in 1..Len(lists[k]) :
          lists[k][i] = FirstRecord(lists[k][i])
    /\ \A id \in DOMAIN commitCache.m :
          commitCache.m[id] = FirstRecord(commitCache.m[id])
    /\ \A p, q \in Callers :
          (p # q /\ callers[p].l # 0 /\ callers[q].l # 0) => callers[p].l # callers[q].l

====
